---- MODULE Spec2Model ----
(***************************************************************************)
(* The LinkedIn internship bot: the dedup store and the run loop of        *)
(* bot.py and linkedin_bot.py, the identifier derivation _get_job_id and   *)
(* the recency filter _is_past_hour.                                       *)
(*                                                                         *)
(* A Python str is a sequence of one-character strings, so that split,     *)
(* "in", strip, lower and int are computed character by character.         *)
(***************************************************************************)
EXTENDS Integers, Sequences, FiniteSets, TLC

VARIABLES
    variant,        \* which program runs: "bot" (bot.py) or "linkedin_bot"
    file,           \* sent_jobs.json on disk
    sent_job_ids,   \* self.sent_job_ids
    pc,             \* position of the process inside run()
    jobs,           \* run(): the list the scrape returned
    new_jobs,       \* run(): the list filter_new_jobs returned
    runs,           \* completed calls of run()
    loaded,         \* history: what _load_sent_jobs returned in __init__
    seen_at_start,  \* history: sent_job_ids when the current run started
    file_at_start,  \* history: the file when the current run started
    outcome,        \* history: how send_email ended in the current run
    delivered,      \* history: ids of the batches whose sendmail succeeded
    handed,         \* history: ids of every batch handed to send_email
    failed,         \* history: ids of the batches whose transport raised
    link,           \* _get_job_id: the job's link
    query,          \* _get_job_id: a query string appended to the link
    id_plain,       \* _get_job_id(link)
    id_query,       \* _get_job_id(link + "?" + query)
    id_pc,          \* position of the _get_job_id driver
    time_text,      \* _is_past_hour: its argument
    past_hour,      \* _is_past_hour: its result
    time_pc,        \* position of the _is_past_hour driver
    title_words,    \* slug parsing: the words of the title in the slug
    company_words,  \* slug parsing: the words of the company in the slug
    job_number,     \* slug parsing: the digits at the end of the slug
    href_tail,      \* slug parsing: what follows the slug in the href
    href,           \* slug parsing: the href of the link element
    url_title,      \* slug parsing: the title taken from the href, or None
    url_company,    \* slug parsing: the company taken from the href, or None
    slug_pc,        \* position of the slug parsing driver
    h_pc,           \* harvest: position inside the scrape function
    driver,         \* harvest: the variable driver (self.driver) is not None
    launched,       \* history: browsers webdriver.Chrome has launched
    quits,          \* history: calls of driver.quit()
    h_jobs,         \* harvest: the list jobs of the scrape function
    seen_links,     \* harvest: seen_links of scrape.py
    left,           \* harvest: elements the current loop has yet to visit
    selector,       \* harvest: the place in job_selectors, from 1
    last,           \* history: what became of the element visited last
    h_error,        \* history: the step whose exception reached the handler
    had_error,      \* history: the work on some element raised
    s_file,         \* store: sent_jobs.json as a JSON text
    s_file_at_start, \* history: the file when the process started
    s_ids,          \* store: self.sent_job_ids
    s_loaded,       \* history: what _load_sent_jobs returned in __init__
    s_reread,       \* store: what _load_sent_jobs returns after a save
    s_pc,           \* position of the store driver
    scroll_pc,      \* scroll loop: position
    last_height,    \* scroll loop: last_height
    new_height,     \* scroll loop: new_height
    scroll_attempts, \* scroll loop: scroll_attempts
    scroll_tos,     \* history: calls of window.scrollTo
    scroll_bys,     \* history: calls of window.scrollBy
    stable_turns    \* history: turns in which new_height was last_height

botVars == <<variant, file, sent_job_ids, pc, jobs, new_jobs, runs, loaded,
             seen_at_start, file_at_start, outcome, delivered, handed, failed>>
idVars == <<link, query, id_plain, id_query, id_pc>>
timeVars == <<time_text, past_hour, time_pc>>
slugVars == <<title_words, company_words, job_number, href_tail, href,
              url_title, url_company, slug_pc>>
harvestVars == <<h_pc, driver, launched, quits, h_jobs, seen_links, left,
                 selector, last, h_error, had_error>>
storeVars == <<s_file, s_file_at_start, s_ids, s_loaded, s_reread, s_pc>>
scrollVars == <<scroll_pc, last_height, new_height, scroll_attempts,
                scroll_tos, scroll_bys, stable_turns>>
vars == <<botVars, idVars, timeVars, slugVars, harvestVars, storeVars,
          scrollVars>>

(***************************************************************************)
(* Bounds of the model.                                                    *)
(***************************************************************************)
MaxRuns == 3
MaxJobs == 2
MaxLinkParts == 3
MaxQueryParts == 2
MaxPhrases == 3
MaxTitleWords == 2
MaxCompanyWords == 2
MaxElements == 2
MaxListed == 2
MaxHeight == 3

(***************************************************************************)
(* Python str operations.                                                  *)
(***************************************************************************)
\* s[i:i+len(p)] == p
MatchAt(s, p, i) ==
    /\ i >= 1
    /\ i + Len(p) - 1 <= Len(s)
    /\ SubSeq(s, i, i + Len(p) - 1) = p

\* p in s
Contains(s, p) == \E i \in 1..Len(s) : MatchAt(s, p, i)

\* s.find(p) + 1, and 0 when p does not occur
Find(s, p) ==
    IF Contains(s, p)
    THEN CHOOSE i \in 1..Len(s) :
            /\ MatchAt(s, p, i)
            /\ \A j \in 1..(i - 1) : ~MatchAt(s, p, j)
    ELSE 0

\* s.split(p): the pieces between the occurrences of p, taken left to right
RECURSIVE Split(_, _)
Split(s, p) ==
    LET i == Find(s, p)
    IN  IF i = 0
        THEN <<s>>
        ELSE <<SubSeq(s, 1, i - 1)>> \o Split(SubSeq(s, i + Len(p), Len(s)), p)

Slash == <<"/">>
QMark == <<"?">>
JobsView == <<"/", "j", "o", "b", "s", "/", "v", "i", "e", "w", "/">>

(***************************************************************************)
(* bot.py: _get_job_id.                                                    *)
(***************************************************************************)
\* the fallback of _get_job_id: link.split('?')[0] if '?' in link else link
CleanLink(l) == IF Contains(l, QMark) THEN Split(l, QMark)[1] ELSE l

\* a slip: the id is cut at the next '/' but not at the next '?'
DeriveIdKeepQuery(l) ==
    IF Contains(l, JobsView)
    THEN LET parts == Split(l, JobsView)
         IN  IF Len(parts) > 1 THEN Split(parts[2], Slash)[1] ELSE CleanLink(l)
    ELSE CleanLink(l)

DeriveId(l) ==
    IF Contains(l, JobsView)
    THEN LET parts == Split(l, JobsView)
         IN  IF Len(parts) > 1
             THEN Split(Split(parts[2], Slash)[1], QMark)[1]
             ELSE CleanLink(l)
    ELSE CleanLink(l)

GetJobId(job) == DeriveId(job.link)

(***************************************************************************)
(* linkedin_bot.py: _is_past_hour.                                         *)
(***************************************************************************)
UpperCase == <<"A", "B", "C", "D", "E", "F", "G", "H", "I", "J", "K", "L", "M",
               "N", "O", "P", "Q", "R", "S", "T", "U", "V", "W", "X", "Y", "Z">>
LowerCase == <<"a", "b", "c", "d", "e", "f", "g", "h", "i", "j", "k", "l", "m",
               "n", "o", "p", "q", "r", "s", "t", "u", "v", "w", "x", "y", "z">>
Whitespace == {" ", "\t", "\n"}
Digits == <<"0", "1", "2", "3", "4", "5", "6", "7", "8", "9">>

\* the value Python's None has as a time_posted
None == <<"None.">>

LowerChar(c) ==
    IF \E i \in 1..Len(UpperCase) : UpperCase[i] = c
    THEN LowerCase[CHOOSE i \in 1..Len(UpperCase) : UpperCase[i] = c]
    ELSE c

\* s.lower()
Lower(s) == [i \in 1..Len(s) |-> LowerChar(s[i])]

\* s.strip()
RECURSIVE LStrip(_)
LStrip(s) ==
    IF s # <<>> /\ s[1] \in Whitespace THEN LStrip(Tail(s)) ELSE s

RECURSIVE RStrip(_)
RStrip(s) ==
    IF s # <<>> /\ s[Len(s)] \in Whitespace
    THEN RStrip(SubSeq(s, 1, Len(s) - 1))
    ELSE s

Strip(s) == RStrip(LStrip(s))

\* the index of the first whitespace character of s, Len(s) + 1 without one
FirstSpace(s) ==
    IF \E i \in 1..Len(s) : s[i] \in Whitespace
    THEN CHOOSE i \in 1..Len(s) :
            /\ s[i] \in Whitespace
            /\ \A j \in 1..(i - 1) : s[j] \notin Whitespace
    ELSE Len(s) + 1

\* s.split(): the maximal runs of non-whitespace characters
RECURSIVE SplitWords(_)
SplitWords(s) ==
    LET t == LStrip(s)
        k == FirstSpace(t)
    IN  IF t = <<>>
        THEN <<>>
        ELSE <<SubSeq(t, 1, k - 1)>> \o SplitWords(SubSeq(t, k, Len(t)))

IsDigit(c) == \E i \in 1..Len(Digits) : Digits[i] = c
DigitValue(c) == (CHOOSE i \in 1..Len(Digits) : Digits[i] = c) - 1

\* int(tok) without its sign: digits, single underscores between them allowed
Unsigned(tok) ==
    IF tok # <<>> /\ tok[1] \in {"+", "-"} THEN Tail(tok) ELSE tok

\* int(tok) does not raise ValueError
IsInt(tok) ==
    LET b == Unsigned(tok)
    IN  /\ b # <<>>
        /\ IsDigit(b[1])
        /\ IsDigit(b[Len(b)])
        /\ \A i \in 1..Len(b) : IsDigit(b[i]) \/ b[i] = "_"
        /\ \A i \in 1..(Len(b) - 1) : ~(b[i] = "_" /\ b[i + 1] = "_")

RECURSIVE Magnitude(_)
Magnitude(b) ==
    IF b = <<>>
    THEN 0
    ELSE IF b[Len(b)] = "_"
         THEN Magnitude(SubSeq(b, 1, Len(b) - 1))
         ELSE 10 * Magnitude(SubSeq(b, 1, Len(b) - 1)) + DigitValue(b[Len(b)])

\* int(tok), for a tok with IsInt(tok)
IntValue(tok) ==
    IF tok[1] = "-" THEN 0 - Magnitude(Unsigned(tok)) ELSE Magnitude(Unsigned(tok))

HourAgo == <<"h", "o", "u", "r", " ", "a", "g", "o">>
HoursAgo == <<"h", "o", "u", "r", "s", " ", "a", "g", "o">>
Minute == <<"m", "i", "n", "u", "t", "e">>
JustNow == <<"j", "u", "s", "t", " ", "n", "o", "w">>
Now == <<"n", "o", "w">>

\* _is_past_hour raises: None has no lower()
PastHourRaises(t) == t = None

\* a slip: any positive number of hours counts as the past hour
IsPastHourAnyHours(t) ==
    LET s == Strip(Lower(t))
        parts == SplitWords(s)
    IN  IF /\ Contains(s, HourAgo) \/ Contains(s, HoursAgo)
           /\ Len(parts) >= 2
           /\ IsInt(parts[1])
        THEN IntValue(parts[1]) >= 1
        ELSE IF Contains(s, Minute)
             THEN TRUE
             ELSE Contains(s, JustNow) \/ Contains(s, Now)

\* _is_past_hour(t), for a t that is a str. A ValueError of int() is swallowed
\* and the minute and now rules are tried next.
IsPastHour(t) ==
    LET s == Strip(Lower(t))
        parts == SplitWords(s)
    IN  IF /\ Contains(s, HourAgo) \/ Contains(s, HoursAgo)
           /\ Len(parts) >= 2
           /\ IsInt(parts[1])
        THEN IntValue(parts[1]) = 1
        ELSE IF Contains(s, Minute)
             THEN TRUE
             ELSE Contains(s, JustNow) \/ Contains(s, Now)

(***************************************************************************)
(* The dedup store: sent_jobs.json and sent_job_ids.                       *)
(***************************************************************************)
Ids == {<<"1">>, <<"2">>}

\* what sent_jobs.json can hold when the process starts
Files ==
    {[kind |-> "missing", ids |-> {}], [kind |-> "corrupt", ids |-> {}]}
        \cup {[kind |-> "doc", ids |-> s] : s \in SUBSET Ids}

\* _load_sent_jobs: the set under job_ids, the empty set for no or a bad file
LoadSentJobs(f) == IF f.kind = "doc" THEN f.ids ELSE {}

\* a slip: only the ids marked in this run are written
SaveOnlyThisRun(ids) == [kind |-> "doc", ids |-> ids \ seen_at_start]

\* _save_sent_jobs: the file is overwritten with the whole set
SaveSentJobs(ids) == [kind |-> "doc", ids |-> ids]

(***************************************************************************)
(* scrape.py: the title and the company read from the slug of the href.    *)
(***************************************************************************)
Dash == <<"-">>
DashAtDash == <<"-", "a", "t", "-">>

UpperChar(c) ==
    IF \E i \in 1..Len(LowerCase) : LowerCase[i] = c
    THEN UpperCase[CHOOSE i \in 1..Len(LowerCase) : LowerCase[i] = c]
    ELSE c

\* c is a letter: it has an upper and a lower case
IsCased(c) == \E i \in 1..Len(LowerCase) : LowerCase[i] = c \/ UpperCase[i] = c

\* the number of digits s ends with
RECURSIVE TrailingDigits(_)
TrailingDigits(s) ==
    IF s # <<>> /\ IsDigit(s[Len(s)])
    THEN 1 + TrailingDigits(SubSeq(s, 1, Len(s) - 1))
    ELSE 0

\* re.sub(r'-\d+$', '', s)
StripJobNumber(s) ==
    LET k == TrailingDigits(s)
    IN  IF k >= 1 /\ Len(s) > k /\ s[Len(s) - k] = "-"
        THEN SubSeq(s, 1, Len(s) - k - 1)
        ELSE s

\* s.rfind(p) + 1, and 0 when p does not occur
RFind(s, p) ==
    IF Contains(s, p)
    THEN CHOOSE i \in 1..Len(s) :
            /\ MatchAt(s, p, i)
            /\ \A j \in (i + 1)..Len(s) : ~MatchAt(s, p, j)
    ELSE 0

\* a slip: split instead of rsplit, the cut is at the first occurrence
SplitOnceAtFirst(s, p) ==
    LET i == Find(s, p)
    IN  IF i = 0
        THEN <<s>>
        ELSE <<SubSeq(s, 1, i - 1), SubSeq(s, i + Len(p), Len(s))>>

\* s.rsplit(p, 1)
RSplitOnce(s, p) ==
    LET i == RFind(s, p)
    IN  IF i = 0
        THEN <<s>>
        ELSE <<SubSeq(s, 1, i - 1), SubSeq(s, i + Len(p), Len(s))>>

\* s.replace('-', ' ')
DashesToSpaces(s) == [i \in 1..Len(s) |-> IF s[i] = "-" THEN " " ELSE s[i]]

\* s.title(): a letter after a letter is lowered, any other letter is raised
Title(s) ==
    [i \in 1..Len(s) |->
        IF i > 1 /\ IsCased(s[i - 1]) THEN LowerChar(s[i]) ELSE UpperChar(s[i])]

\* "Method 1" of the primary pass: title and company from the href, None for
\* a field the slug does not give
FromUrl(h) ==
    IF Contains(h, JobsView)
    THEN LET slug_part == Split(Split(h, JobsView)[2], QMark)[1]
             slug_clean == StripJobNumber(slug_part)
         IN  IF Contains(Lower(slug_clean), DashAtDash)
             THEN LET parts == RSplitOnce(slug_clean, DashAtDash)
                      title_part == parts[1]
                      company_part == IF Len(parts) > 1 THEN parts[2] ELSE None
                      title_from_url == Title(DashesToSpaces(title_part))
                      company_from_url == Title(DashesToSpaces(company_part))
                  IN  [title |-> IF Len(title_from_url) > 3
                                 THEN title_from_url
                                 ELSE None,
                       company |-> IF /\ company_part # None
                                      /\ company_part # <<>>
                                      /\ Len(company_from_url) > 1
                                   THEN company_from_url
                                   ELSE None]
             ELSE LET title_part == slug_clean
                      title_from_url == Title(DashesToSpaces(title_part))
                  IN  [title |-> IF Len(title_from_url) > 3
                                 THEN title_from_url
                                 ELSE None,
                       company |-> None]
    ELSE [title |-> None, company |-> None]

(***************************************************************************)
(* What a scrape returns.                                                  *)
(***************************************************************************)
Host == <<"h">>
BotLinks ==
    { Host \o JobsView \o <<"1">>,
      Host \o JobsView \o <<"1", "/">>,
      Host \o JobsView \o <<"1", "?", "q">>,
      Host \o JobsView \o <<"2">> }

SeqsUpTo(S, n) == UNION {[1..k -> S] : k \in 0..n}

\* scrape_linkedin_jobs: records whose links differ after the query is cut
BotHarvests ==
    { js \in SeqsUpTo({[link |-> l] : l \in BotLinks}, MaxJobs) :
        \A i, j \in 1..Len(js) :
            i # j => CleanLink(js[i].link) # CleanLink(js[j].link) }

OneHourAgo == <<"1", " ", "h", "o", "u", "r", " ", "a", "g", "o">>
TwoHoursAgo == <<"2", " ", "h", "o", "u", "r", "s", " ", "a", "g", "o">>

\* scrape_jobs: records with the composite id and the posting time, which is
\* None for a time element with no text and no datetime attribute
LinkedinHarvests ==
    SeqsUpTo({[id |-> i, time_posted |-> t] :
                  i \in Ids, t \in {OneHourAgo, TwoHoursAgo, None}}, MaxJobs)

Harvests(v) == IF v = "bot" THEN BotHarvests ELSE LinkedinHarvests

\* the dedup key of a record: _get_job_id(job) in bot.py, job.get('id') in
\* linkedin_bot.py
JobId(v, job) == IF v = "bot" THEN GetJobId(job) ELSE job.id

IdsOf(v, js) == {JobId(v, js[i]) : i \in 1..Len(js)}

(***************************************************************************)
(* filter_new_jobs.                                                        *)
(***************************************************************************)
\* a slip: the new records are returned but not marked as seen
RECURSIVE FilterLoopNoMark(_, _, _, _)
FilterLoopNoMark(js, i, new, seen) ==
    IF i > Len(js)
    THEN [new |-> new, seen |-> seen, raised |-> FALSE]
    ELSE IF GetJobId(js[i]) \in seen
         THEN FilterLoopNoMark(js, i + 1, new, seen)
         ELSE FilterLoopNoMark(js, i + 1, Append(new, js[i]), seen)

\* bot.py: the loop of filter_new_jobs from record i on
RECURSIVE FilterLoop(_, _, _, _)
FilterLoop(js, i, new, seen) ==
    IF i > Len(js)
    THEN [new |-> new, seen |-> seen, raised |-> FALSE]
    ELSE LET job_id == GetJobId(js[i])
         IN  IF job_id \in seen
             THEN FilterLoop(js, i + 1, new, seen)
             ELSE FilterLoop(js, i + 1, Append(new, js[i]), seen \cup {job_id})

\* a slip: a new record is put in front of the list instead of appended
RECURSIVE FilterLoopPrepend(_, _, _, _)
FilterLoopPrepend(js, i, new, seen) ==
    IF i > Len(js)
    THEN [new |-> new, seen |-> seen, raised |-> FALSE]
    ELSE LET job_id == GetJobId(js[i])
         IN  IF job_id \in seen
             THEN FilterLoopPrepend(js, i + 1, new, seen)
             ELSE FilterLoopPrepend(js, i + 1, <<js[i]>> \o new,
                                    seen \cup {job_id})

FilterNewJobsNoMark(js, seen) == FilterLoopNoMark(js, 1, <<>>, seen)

FilterNewJobsPrepend(js, seen) == FilterLoopPrepend(js, 1, <<>>, seen)

\* a slip: the test "job_id in self.sent_job_ids" is left out
FilterNewJobsNoSkip(js, seen) ==
    [new |-> js,
     seen |-> seen \cup {GetJobId(js[i]) : i \in 1..Len(js)},
     raised |-> FALSE]

FilterNewJobs(js, seen) == FilterLoop(js, 1, <<>>, seen)

\* linkedin_bot.py: the loop of filter_new_jobs from record i on; raised when
\* _is_past_hour raised, which ends the loop and the run
RECURSIVE FilterPastHourLoop(_, _, _, _)
FilterPastHourLoop(js, i, new, seen) ==
    IF i > Len(js)
    THEN [new |-> new, seen |-> seen, raised |-> FALSE]
    ELSE LET job_id == js[i].id
             time_posted == js[i].time_posted
         IN  IF job_id \in seen
             THEN FilterPastHourLoop(js, i + 1, new, seen)
             ELSE IF PastHourRaises(time_posted)
                  THEN [new |-> new, seen |-> seen, raised |-> TRUE]
                  ELSE IF IsPastHour(time_posted)
                       THEN FilterPastHourLoop(js, i + 1, Append(new, js[i]),
                                               seen \cup {job_id})
                       ELSE FilterPastHourLoop(js, i + 1, new, seen)

FilterPastHour(js, seen) == FilterPastHourLoop(js, 1, <<>>, seen)

(***************************************************************************)
(* send_email.                                                             *)
(***************************************************************************)
\* how the try block of send_email ends: "sent" when every call returned, or
\* the name of the call that raised ("save" is _save_sent_jobs failing to
\* open the file for writing)
TransportFailures == {"connect", "starttls", "login", "sendmail"}
SendOutcomes == {"sent", "quit", "save"} \cup TransportFailures

\* server.sendmail returned: the message was accepted for delivery
Accepted(o) == o \in {"sent", "quit", "save"}

\* a change of behaviour: a failed send takes the marks of its batch back
SeenRolledBack(o, seen, at_start) ==
    IF o \in TransportFailures THEN at_start ELSE seen

\* sent_job_ids after send_email ended with o: no branch of it touches the set
SeenAfterSend(o, seen, at_start) == seen

\* a slip: the state is saved in a finally clause
WritesFileAlways(o) == TRUE

\* _save_sent_jobs is reached and writes: no call before it raised
WritesFile(o) == o = "sent"

(***************************************************************************)
(* The process: __init__, then run() after run().                          *)
(***************************************************************************)
BotInit ==
    /\ variant \in {"bot", "linkedin_bot"}
    /\ file \in Files
    /\ sent_job_ids = LoadSentJobs(file)
    /\ loaded = LoadSentJobs(file)
    /\ pc = "idle"
    /\ jobs = <<>>
    /\ new_jobs = <<>>
    /\ runs = 0
    /\ seen_at_start = LoadSentJobs(file)
    /\ file_at_start = file
    /\ outcome = "none"
    /\ delivered = {}
    /\ handed = {}
    /\ failed = {}

\* run(): the scrape returns
Scrape ==
    /\ pc = "idle"
    /\ runs < MaxRuns
    /\ \E js \in Harvests(variant) : jobs' = js
    /\ new_jobs' = <<>>
    /\ seen_at_start' = sent_job_ids
    /\ file_at_start' = file
    /\ outcome' = "none"
    /\ pc' = "filter"
    /\ UNCHANGED <<variant, file, sent_job_ids, runs, loaded, delivered, handed,
                   failed, idVars, timeVars,
                   slugVars, harvestVars,
                   storeVars, scrollVars>>

\* run(): filter_new_jobs(jobs). In linkedin_bot.py run() has no try, so an
\* exception of _is_past_hour leaves run() and start_scheduler().
Filter ==
    /\ pc = "filter"
    /\ LET r == IF variant = "bot"
                THEN FilterNewJobs(jobs, sent_job_ids)
                ELSE FilterPastHour(jobs, sent_job_ids)
       IN  /\ sent_job_ids' = r.seen
           /\ new_jobs' = r.new
           /\ pc' = IF r.raised THEN "crashed" ELSE "send"
    /\ UNCHANGED <<variant, file, jobs, runs, loaded, seen_at_start,
                   file_at_start, outcome, delivered, handed, failed, idVars, timeVars,
                   slugVars, harvestVars,
                   storeVars, scrollVars>>

\* a slip: the guard "if not jobs: return" is left out
SendEmailNoGuard(js, o) == o

\* how send_email(js) ends when its calls would end with o: "none" is the
\* return of "if not jobs", which comes before the message is built and the
\* try block with the SMTP calls is entered
SendEmail(js, o) == IF js = <<>> THEN "none" ELSE o

\* send_email(js), from its first line to its return
CallSendEmail(js) ==
    /\ \E o \in SendOutcomes :
          LET e == SendEmail(js, o)
          IN  /\ outcome' = e
              /\ file' = IF WritesFile(e) THEN SaveSentJobs(sent_job_ids) ELSE file
              /\ sent_job_ids' = SeenAfterSend(e, sent_job_ids, seen_at_start)
              /\ delivered' = IF Accepted(e)
                              THEN delivered \cup IdsOf(variant, js)
                              ELSE delivered
              /\ failed' = IF e \in TransportFailures
                           THEN failed \cup IdsOf(variant, js)
                           ELSE failed
    /\ handed' = handed \cup IdsOf(variant, js)

\* run(): "if new_jobs: self.send_email(new_jobs)", to the end of run().
\* Every exception of the try block of send_email is caught and printed.
Send ==
    /\ pc = "send"
    /\ \/ /\ new_jobs = <<>>
          /\ UNCHANGED <<file, sent_job_ids, outcome, delivered, handed, failed>>
       \/ /\ new_jobs # <<>>
          /\ CallSendEmail(new_jobs)
    /\ pc' = "idle"
    /\ runs' = runs + 1
    /\ UNCHANGED <<variant, jobs, new_jobs, loaded, seen_at_start, file_at_start,
                   idVars, timeVars,
                   slugVars, harvestVars,
                   storeVars, scrollVars>>

IdIdle ==
    /\ link = <<>>
    /\ query = <<>>
    /\ id_plain = <<>>
    /\ id_query = <<>>
    /\ id_pc = "off"

TimeIdle ==
    /\ time_text = <<>>
    /\ past_hour = FALSE
    /\ time_pc = "off"

StoreIdle ==
    /\ s_file = [kind |-> "missing",
                 value |-> [t |-> "null", s |-> <<>>, items |-> <<>>]]
    /\ s_file_at_start = s_file
    /\ s_ids = {}
    /\ s_loaded = {}
    /\ s_reread = {}
    /\ s_pc = "off"

ScrollIdle ==
    /\ scroll_pc = "off"
    /\ last_height = 0
    /\ new_height = 0
    /\ scroll_attempts = 0
    /\ scroll_tos = 0
    /\ scroll_bys = 0
    /\ stable_turns = 0

HarvestIdle ==
    /\ h_pc = "off"
    /\ driver = FALSE
    /\ launched = 0
    /\ quits = 0
    /\ h_jobs = <<>>
    /\ seen_links = {}
    /\ left = 0
    /\ selector = 1
    /\ last = [result |-> "none", no_href |-> FALSE, none_found |-> FALSE]
    /\ h_error = "none"
    /\ had_error = FALSE

SlugIdle ==
    /\ title_words = <<>>
    /\ company_words = <<>>
    /\ job_number = <<>>
    /\ href_tail = <<>>
    /\ href = <<>>
    /\ url_title = <<>>
    /\ url_company = <<>>
    /\ slug_pc = "off"

BotIdle ==
    /\ variant = "bot"
    /\ file = [kind |-> "missing", ids |-> {}]
    /\ sent_job_ids = {}
    /\ loaded = {}
    /\ pc = "off"
    /\ jobs = <<>>
    /\ new_jobs = <<>>
    /\ runs = 0
    /\ seen_at_start = {}
    /\ file_at_start = [kind |-> "missing", ids |-> {}]
    /\ outcome = "none"
    /\ delivered = {}
    /\ handed = {}
    /\ failed = {}

(***************************************************************************)
(* _get_job_id on its own: a link, and the link with a query appended.     *)
(***************************************************************************)
RECURSIVE Flatten(_)
Flatten(ps) == IF ps = <<>> THEN <<>> ELSE Head(ps) \o Flatten(Tail(ps))

\* the pieces links and queries are put together from
LinkParts == {<<"1">>, Slash, QMark, JobsView, Tail(JobsView)}

\* an href read from the page is an absolute URL: it starts with the host
LinkInputs == {Host \o Flatten(ps) : ps \in SeqsUpTo(LinkParts, MaxLinkParts)}
QueryInputs == {Flatten(ps) : ps \in SeqsUpTo(LinkParts, MaxQueryParts)}

IdInit ==
    /\ link \in LinkInputs
    /\ query \in QueryInputs
    /\ id_plain = <<>>
    /\ id_query = <<>>
    /\ id_pc = "start"

DeriveIds ==
    /\ id_pc = "start"
    /\ id_plain' = DeriveId(link)
    /\ id_query' = DeriveId(link \o QMark \o query)
    /\ id_pc' = "done"
    /\ UNCHANGED <<link, query, botVars, timeVars, slugVars, harvestVars,
                   storeVars, scrollVars>>

InitId == BotIdle /\ IdInit /\ TimeIdle /\ SlugIdle /\ HarvestIdle
    /\ StoreIdle /\ ScrollIdle

NextId == DeriveIds

SpecId == InitId /\ [][NextId]_vars

(***************************************************************************)
(* _is_past_hour on its own.                                               *)
(***************************************************************************)
RECURSIVE JoinWords(_)
JoinWords(ws) ==
    IF ws = <<>>
    THEN <<>>
    ELSE IF Len(ws) = 1
         THEN ws[1]
         ELSE ws[1] \o <<" ">> \o JoinWords(Tail(ws))

TimePhrases ==
    { <<"1">>, <<"2">>, <<"0", "1">>, <<"1", "2">>, <<"x">>, <<" ">>,
      HourAgo, HoursAgo,
      <<"H", "o", "u", "r", "s", " ", "A", "g", "o">>,
      <<"m", "i", "n", "u", "t", "e", "s">>,
      Now, JustNow,
      <<"U", "n", "k", "n", "o", "w", "n">>,
      <<"y", "e", "s", "t", "e", "r", "d", "a", "y">> }

TimeTexts ==
    {JoinWords(ws) : ws \in SeqsUpTo(TimePhrases, MaxPhrases)} \cup {None}

TimeInit ==
    /\ time_text \in TimeTexts
    /\ past_hour = FALSE
    /\ time_pc = "start"

ApplyIsPastHour ==
    /\ time_pc = "start"
    /\ IF PastHourRaises(time_text)
       THEN /\ time_pc' = "raised"
            /\ UNCHANGED past_hour
       ELSE /\ time_pc' = "done"
            /\ past_hour' = IsPastHour(time_text)
    /\ UNCHANGED <<time_text, botVars, idVars, slugVars, harvestVars,
                   storeVars, scrollVars>>

InitTime == BotIdle /\ IdIdle /\ TimeInit /\ SlugIdle /\ HarvestIdle
    /\ StoreIdle /\ ScrollIdle

NextTime == ApplyIsPastHour

SpecTime == InitTime /\ [][NextTime]_vars

(***************************************************************************)
(* send_email on its own, next to the runs of the process: a caller hands  *)
(* it any list, the empty one among them.                                  *)
(***************************************************************************)
NotifyInit ==
    /\ variant \in {"bot", "linkedin_bot"}
    /\ file \in Files
    /\ sent_job_ids = LoadSentJobs(file)
    /\ loaded = LoadSentJobs(file)
    /\ pc \in {"notify", "idle"}
    /\ jobs = <<>>
    /\ new_jobs \in IF pc = "notify" THEN Harvests(variant) ELSE {<<>>}
    /\ runs = 0
    /\ seen_at_start = LoadSentJobs(file)
    /\ file_at_start = file
    /\ outcome = "none"
    /\ delivered = {}
    /\ handed = {}
    /\ failed = {}

Notify ==
    /\ pc = "notify"
    /\ CallSendEmail(new_jobs)
    /\ pc' = "returned"
    /\ UNCHANGED <<variant, jobs, new_jobs, runs, loaded, seen_at_start,
                   file_at_start, idVars, timeVars,
                   slugVars, harvestVars,
                   storeVars, scrollVars>>

InitNotify == NotifyInit /\ IdIdle /\ TimeIdle /\ SlugIdle /\ HarvestIdle
    /\ StoreIdle /\ ScrollIdle

NextNotify == Notify \/ Scrape \/ Filter \/ Send

SpecNotify == InitNotify /\ [][NextNotify]_vars

(***************************************************************************)
(* The slug parsing on its own: an href put together from title words,     *)
(* company words, a job number and what follows the slug.                  *)
(***************************************************************************)
RECURSIVE JoinWith(_, _)
JoinWith(ws, sep) ==
    IF ws = <<>>
    THEN <<>>
    ELSE IF Len(ws) = 1
         THEN ws[1]
         ELSE ws[1] \o sep \o JoinWith(Tail(ws), sep)

SlugWords ==
    { <<"q", "a">>, <<"d", "a", "t", "a">>, <<"a", "t">>, <<"x">>,
      <<"3", "d">>, <<"D", "e", "v">>, <<"1", "2">> }

JobNumbers == {<<>>, <<"7">>, <<"4", "2">>}

HrefTails == {<<>>, <<"?", "q">>, <<"/">>}

\* the slug: the title, then "-at-" and the company when there is one, then
\* "-" and the job number when there is one
SlugOf(tw, cw, n) ==
    JoinWith(tw, Dash)
        \o (IF cw = <<>> THEN <<>> ELSE DashAtDash \o JoinWith(cw, Dash))
        \o (IF n = <<>> THEN <<>> ELSE Dash \o n)

SlugInit ==
    /\ title_words \in SeqsUpTo(SlugWords, MaxTitleWords)
    /\ company_words \in SeqsUpTo(SlugWords, MaxCompanyWords)
    /\ job_number \in JobNumbers
    /\ href_tail \in HrefTails
    /\ href = Host \o JobsView
                \o SlugOf(title_words, company_words, job_number) \o href_tail
    /\ url_title = <<>>
    /\ url_company = <<>>
    /\ slug_pc = "start"

ParseSlug ==
    /\ slug_pc = "start"
    /\ url_title' = FromUrl(href).title
    /\ url_company' = FromUrl(href).company
    /\ slug_pc' = "done"
    /\ UNCHANGED <<title_words, company_words, job_number, href_tail, href,
                   botVars, idVars, timeVars, harvestVars,
                   storeVars, scrollVars>>

InitSlug == BotIdle /\ IdIdle /\ TimeIdle /\ SlugInit /\ HarvestIdle
    /\ StoreIdle /\ ScrollIdle

NextSlug == ParseSlug

SpecSlug == InitSlug /\ [][NextSlug]_vars

(***************************************************************************)
(* The harvest: scrape_linkedin_jobs of scrape.py, which bot.py runs, and  *)
(* scrape_jobs of linkedin_bot.py, each followed by the rest of one run(). *)
(* The page is the environment: what an element holds is chosen when the   *)
(* loop reaches it.                                                        *)
(***************************************************************************)
\* scrape.py: len(job_selectors) of the secondary pass
NumJobSelectors == 5
\* linkedin_bot.py: len(job_selectors)
NumCardSelectors == 4
\* linkedin_bot.py: job_elements[:50]
MaxCards == 50

\* a lookup that found nothing: find_element raised NoSuchElementException
Missing == <<"Missing.">>
\* an element that is gone from the page: reading it raises
Stale == <<"Stale.">>

NewLine == <<"\n">>
Ago == <<"a", "g", "o">>
Unknown == <<"U", "n", "k", "n", "o", "w", "n">>
TitleNotFound ==
    <<"J", "o", "b", " ", "L", "i", "s", "t", "i", "n", "g", " ", "(", "T",
      "i", "t", "l", "e", " ", "n", "o", "t", " ", "f", "o", "u", "n", "d",
      ")">>
CompanyNotFound ==
    <<"C", "o", "m", "p", "a", "n", "y", " ", "n", "o", "t", " ", "f", "o",
      "u", "n", "d">>

\* texts the page gives
PageTitle == <<"T", "e", "s", "t", "e", "r">>
PageCompany == <<"A", "c", "m", "e">>
PageLocation == <<"O", "s", "l", "o">>
CardText == <<"D", "e", "v", "\n">> \o OneHourAgo

\* self.linkedin_url
LinkedinUrl == Host \o <<"/", "s">>

HarvestLinks ==
    { Host \o JobsView \o <<"1">>,
      Host \o JobsView \o <<"1", "?", "q">>,
      Host \o JobsView \o <<"d", "a", "t", "a", "-", "a", "t", "-", "q", "a",
                            "-", "7">> }

\* "not x" for a value that is None or a str
Falsy(x) == x = None \/ x = <<>>

\* scrape.py: a link element of the primary pass or a container of the
\* secondary pass. href is what get_attribute('href') gives (Stale: the lookup
\* or the read raises); page tells whether the selectors find a title and a
\* company around it
ScrapeElements ==
    {[href |-> l, page |-> p] : l \in HarvestLinks, p \in BOOLEAN}
        \cup {[href |-> l, page |-> FALSE] : l \in {None, <<>>, Stale}}

\* linkedin_bot.py: a job card. title is the text of the first title selector
\* that matches, text is element.text, href is the link the two lookups give,
\* time is what the first matching time selector gives, meta tells whether
\* the company and location selectors match
CardElements ==
    {[title |-> t, text |-> x, href |-> l, time |-> d, meta |-> m] :
        t \in {Missing, <<>>, PageTitle},
        x \in {<<>>, Stale, CardText},
        l \in {None, Host \o JobsView \o <<"1">>},
        d \in {Missing, None},
        m \in BOOLEAN}

\* a slip: only the href as read is looked up, not the href without its query
PrimaryResultRawOnly(e, seen) ==
    IF e.href = Stale
    THEN "error"
    ELSE IF Falsy(e.href)
         THEN "no href"
         ELSE IF e.href \in seen THEN "duplicate" ELSE "record"

\* scrape.py, primary pass: what becomes of a link element
PrimaryResult(e, seen) ==
    IF e.href = Stale
    THEN "error"
    ELSE IF Falsy(e.href) \/ e.href \in seen
         THEN IF Falsy(e.href) THEN "no href" ELSE "duplicate"
         ELSE IF CleanLink(e.href) \in seen THEN "duplicate" ELSE "record"

\* scrape.py, primary pass: the record of a link element
PrimaryRecord(e) ==
    LET url == FromUrl(e.href)
        title == IF ~Falsy(url.title)
                 THEN url.title
                 ELSE IF e.page THEN PageTitle ELSE None
        company == IF ~Falsy(url.company)
                   THEN url.company
                   ELSE IF e.page THEN PageCompany ELSE None
    IN  [title |-> IF Falsy(title) THEN TitleNotFound ELSE title,
         company |-> IF Falsy(company) THEN CompanyNotFound ELSE company,
         link |-> e.href]

\* the links of the records, each without its query
CleanLinks(js) == {CleanLink(js[i].link) : i \in 1..Len(js)}

\* scrape.py, secondary pass: what becomes of a container
SecondaryResult(e, js) ==
    IF e.href = Stale
    THEN "error"
    ELSE IF Falsy(e.href)
         THEN "no href"
         ELSE IF CleanLink(e.href) \in CleanLinks(js)
              THEN "duplicate"
              ELSE "record"

\* scrape.py, secondary pass: the record of a container
SecondaryRecord(e) ==
    [title |-> IF e.page THEN PageTitle ELSE TitleNotFound,
     company |-> IF e.page THEN PageCompany ELSE CompanyNotFound,
     link |-> e.href]

\* scrape.py: "Remove duplicates based on link"
RECURSIVE UniqueJobs(_, _, _)
UniqueJobs(js, seen, unique) ==
    IF js = <<>>
    THEN unique
    ELSE IF Head(js).link \in seen
         THEN UniqueJobs(Tail(js), seen, unique)
         ELSE UniqueJobs(Tail(js), seen \cup {Head(js).link},
                         Append(unique, Head(js)))

\* s.replace(" ", "_")
SpacesToUnderscores(s) == [i \in 1..Len(s) |-> IF s[i] = " " THEN "_" ELSE s[i]]

\* linkedin_bot.py: the title of a card, before the test that drops a card
CardTitle(e) ==
    LET title == IF e.title = Missing THEN None ELSE e.title
    IN  IF Falsy(title)
        THEN IF e.text # <<>> THEN Split(e.text, NewLine)[1] ELSE Unknown
        ELSE title

\* linkedin_bot.py: the time_posted of a card
CardTime(e) ==
    LET time_posted == IF e.time = Missing THEN Unknown ELSE e.time
    IN  IF time_posted = Unknown /\ Contains(Lower(e.text), Ago)
        THEN LET lines == Split(e.text, NewLine)
                 k == CHOOSE i \in 1..Len(lines) :
                         /\ Contains(Lower(lines[i]), Ago)
                         /\ \A j \in 1..(i - 1) : ~Contains(Lower(lines[j]), Ago)
             IN  Strip(lines[k])
        ELSE time_posted

\* linkedin_bot.py: what becomes of a card. element.text is read for the
\* title when no selector gave one and for the time when none gave one
CardResult(e) ==
    IF /\ e.text = Stale
       /\ \/ e.title = Missing
          \/ e.title = <<>>
          \/ e.time = Missing
    THEN "error"
    ELSE IF ~Falsy(CardTitle(e)) /\ CardTitle(e) # Unknown
         THEN "record"
         ELSE "no title"

\* linkedin_bot.py: the record of a card
CardRecord(e) ==
    LET title == CardTitle(e)
        company == IF e.meta THEN PageCompany ELSE Unknown
        location == IF e.meta THEN PageLocation ELSE Unknown
    IN  [id |-> Lower(SpacesToUnderscores(
                    title \o <<"_">> \o company \o <<"_">> \o location)),
         title |-> title,
         company |-> company,
         location |-> location,
         link |-> IF Falsy(e.href) THEN LinkedinUrl ELSE e.href,
         time_posted |-> CardTime(e)]

\* a change of behaviour: a failed scroll is passed over, the harvest goes on
AfterRaiseScrollPassed(step) == IF step = "scroll" THEN "links" ELSE "except"

\* where an exception of a step of the try block goes: the one handler
AfterRaise(step) == "except"

\* a slip: no try around the work on one element, its exception ends the loop
AfterElementErrorEndsLoop(loop) == "except"

\* where an exception of the work on one element goes: "continue"
AfterElementError(loop) == loop

NoElement == [result |-> "none", no_href |-> FALSE, none_found |-> FALSE]

\* sent_jobs.json when the run starts: not there, or with the id "1" in it
HarvestFiles == {f \in Files : f.kind = "missing" \/ f.ids = {<<"1">>}}

HarvestInit ==
    /\ variant \in {"bot", "linkedin_bot"}
    /\ file \in HarvestFiles
    /\ sent_job_ids = LoadSentJobs(file)
    /\ loaded = LoadSentJobs(file)
    /\ pc = "scrape"
    /\ jobs = <<>>
    /\ new_jobs = <<>>
    /\ runs = 0
    /\ seen_at_start = LoadSentJobs(file)
    /\ file_at_start = file
    /\ outcome = "none"
    /\ delivered = {}
    /\ handed = {}
    /\ failed = {}
    /\ h_pc = "setup"
    /\ driver = FALSE
    /\ launched = 0
    /\ quits = 0
    /\ h_jobs = <<>>
    /\ seen_links = {}
    /\ left = 0
    /\ selector = 1
    /\ last = NoElement
    /\ h_error = "none"
    /\ had_error = FALSE

\* setup_driver() and "driver = setup_driver()": webdriver.Chrome raises, or
\* it launches the browser and execute_script raises, or both return. In
\* scrape.py the variable is assigned after setup_driver returned, in
\* linkedin_bot.py self.driver is assigned before execute_script is called.
SetupDriver ==
    /\ h_pc = "setup"
    /\ \/ /\ h_pc' = AfterRaise("setup")
          /\ h_error' = "setup"
          /\ UNCHANGED <<driver, launched>>
       \/ /\ h_pc' = AfterRaise("setup")
          /\ h_error' = "setup"
          /\ launched' = launched + 1
          /\ driver' = (variant = "linkedin_bot")
       \/ /\ h_pc' = "get"
          /\ launched' = launched + 1
          /\ driver' = TRUE
          /\ UNCHANGED h_error
    /\ UNCHANGED <<quits, h_jobs, seen_links, left, selector, last, had_error,
                   botVars, idVars, timeVars, slugVars, storeVars,
                   scrollVars>>

\* driver.get(url) and the sleep after it
Get ==
    /\ h_pc = "get"
    /\ \/ /\ h_pc' = AfterRaise("get")
          /\ h_error' = "get"
       \/ /\ h_pc' = IF variant = "bot" THEN "scroll" ELSE "cards"
          /\ UNCHANGED h_error
    /\ UNCHANGED <<driver, launched, quits, h_jobs, seen_links, left, selector,
                   last, had_error, botVars, idVars, timeVars, slugVars, storeVars,
                   scrollVars>>

\* scrape.py: the height read and the scroll loop, which end or raise
ScrollPage ==
    /\ h_pc = "scroll"
    /\ \/ /\ h_pc' = AfterRaise("scroll")
          /\ h_error' = "scroll"
       \/ /\ h_pc' = "links"
          /\ UNCHANGED h_error
    /\ UNCHANGED <<driver, launched, quits, h_jobs, seen_links, left, selector,
                   last, had_error, botVars, idVars, timeVars, slugVars, storeVars,
                   scrollVars>>

\* scrape.py: job_links = driver.find_elements(...); seen_links = set()
FindJobLinks ==
    /\ h_pc = "links"
    /\ \/ /\ h_pc' = AfterRaise("links")
          /\ h_error' = "links"
          /\ UNCHANGED <<left, seen_links>>
       \/ /\ \E k \in 0..MaxElements :
                /\ left' = k
                /\ h_pc' = IF k > 0 THEN "primary" ELSE "containers"
          /\ seen_links' = {}
          /\ UNCHANGED h_error
    /\ UNCHANGED <<driver, launched, quits, h_jobs, selector, last, had_error,
                   botVars, idVars, timeVars, slugVars, storeVars,
                   scrollVars>>

\* scrape.py: one turn of "for link_elem in job_links"
PrimaryLink ==
    /\ h_pc = "primary"
    /\ left > 0
    /\ \E e \in ScrapeElements :
          LET r == PrimaryResult(e, seen_links)
              loop == IF left > 1 THEN "primary" ELSE "containers"
          IN  /\ last' = [result |-> r, no_href |-> Falsy(e.href),
                          none_found |-> ~e.page]
              /\ h_jobs' = IF r = "record"
                           THEN Append(h_jobs, PrimaryRecord(e))
                           ELSE h_jobs
              /\ seen_links' = IF r = "record"
                               THEN seen_links \cup {CleanLink(e.href), e.href}
                               ELSE seen_links
              /\ had_error' = (had_error \/ r = "error")
              /\ h_pc' = IF r = "error" THEN AfterElementError(loop) ELSE loop
    /\ left' = left - 1
    /\ UNCHANGED <<driver, launched, quits, selector, h_error, botVars, idVars,
                   timeVars, slugVars, storeVars,
                   scrollVars>>

\* scrape.py: "elements = driver.find_elements(By.CSS_SELECTOR, selector)"
\* for the next selector; an exception or an empty list leads to the next one
FindContainers ==
    /\ h_pc = "containers"
    /\ \/ /\ left' = 0
          /\ selector' = selector + 1
          /\ h_pc' = IF selector < NumJobSelectors THEN "containers" ELSE "dedup"
       \/ /\ \E k \in 1..MaxElements : left' = k
          /\ h_pc' = "secondary"
          /\ UNCHANGED selector
    /\ UNCHANGED <<driver, launched, quits, h_jobs, seen_links, last, h_error,
                   had_error, botVars, idVars, timeVars, slugVars, storeVars,
                   scrollVars>>

\* scrape.py: one turn of "for element in elements"
SecondaryContainer ==
    /\ h_pc = "secondary"
    /\ left > 0
    /\ \E e \in ScrapeElements :
          LET r == SecondaryResult(e, h_jobs)
              next == IF selector < NumJobSelectors THEN "containers" ELSE "dedup"
              loop == IF left > 1 THEN "secondary" ELSE next
          IN  /\ last' = [result |-> r, no_href |-> Falsy(e.href),
                          none_found |-> ~e.page]
              /\ h_jobs' = IF r = "record"
                           THEN Append(h_jobs, SecondaryRecord(e))
                           ELSE h_jobs
              /\ had_error' = (had_error \/ r = "error")
              /\ h_pc' = IF r = "error" THEN AfterElementError(loop) ELSE loop
    /\ left' = left - 1
    /\ selector' = IF left > 1 THEN selector ELSE selector + 1
    /\ UNCHANGED <<driver, launched, quits, seen_links, h_error, botVars,
                   idVars, timeVars, slugVars, storeVars,
                   scrollVars>>

\* scrape.py: the last pass over jobs, which ends the try block
RemoveDuplicates ==
    /\ h_pc = "dedup"
    /\ h_jobs' = UniqueJobs(h_jobs, {}, <<>>)
    /\ seen_links' = {h_jobs[i].link : i \in 1..Len(h_jobs)}
    /\ h_pc' = "finally"
    /\ UNCHANGED <<driver, launched, quits, left, selector, last, h_error,
                   had_error, botVars, idVars, timeVars, slugVars, storeVars,
                   scrollVars>>

\* linkedin_bot.py: find_elements for the next selector of job_selectors; the
\* first selector with elements ends the loop
FindCards ==
    /\ h_pc = "cards"
    /\ \/ /\ left' = 0
          /\ selector' = selector + 1
          /\ h_pc' = IF selector < NumCardSelectors THEN "cards" ELSE "card links"
       \/ /\ \E k \in 1..MaxElements :
                left' = IF k < MaxCards THEN k ELSE MaxCards
          /\ h_pc' = "card"
          /\ UNCHANGED selector
    /\ UNCHANGED <<driver, launched, quits, h_jobs, seen_links, last, h_error,
                   had_error, botVars, idVars, timeVars, slugVars, storeVars,
                   scrollVars>>

\* linkedin_bot.py: "if not job_elements": the links of the page are taken
FindCardLinks ==
    /\ h_pc = "card links"
    /\ \/ /\ h_pc' = AfterRaise("card links")
          /\ h_error' = "card links"
          /\ UNCHANGED left
       \/ /\ \E k \in 0..MaxElements :
                /\ left' = (IF k < MaxCards THEN k ELSE MaxCards)
                /\ h_pc' = IF k > 0 THEN "card" ELSE "finally"
          /\ UNCHANGED h_error
    /\ UNCHANGED <<driver, launched, quits, h_jobs, seen_links, selector, last,
                   had_error, botVars, idVars, timeVars, slugVars, storeVars,
                   scrollVars>>

\* linkedin_bot.py: one turn of "for element in job_elements[:50]"
Card ==
    /\ h_pc = "card"
    /\ left > 0
    /\ \E e \in CardElements :
          LET r == CardResult(e)
              loop == IF left > 1 THEN "card" ELSE "finally"
          IN  /\ last' = [result |-> r, no_href |-> Falsy(e.href),
                          none_found |-> e.title = Missing /\ ~e.meta
                                            /\ e.time = Missing]
              /\ h_jobs' = IF r = "record"
                           THEN Append(h_jobs, CardRecord(e))
                           ELSE h_jobs
              /\ had_error' = (had_error \/ r = "error")
              /\ h_pc' = IF r = "error" THEN AfterElementError(loop) ELSE loop
    /\ left' = left - 1
    /\ UNCHANGED <<driver, launched, quits, seen_links, selector, h_error,
                   botVars, idVars, timeVars, slugVars, storeVars,
                   scrollVars>>

\* "except Exception as e": the error is printed
Except ==
    /\ h_pc = "except"
    /\ h_pc' = "finally"
    /\ UNCHANGED <<driver, launched, quits, h_jobs, seen_links, left, selector,
                   last, h_error, had_error, botVars, idVars, timeVars,
                   slugVars, storeVars,
                   scrollVars>>

\* "finally": scrape.py "if driver: driver.quit()", linkedin_bot.py
\* _close_driver(), which sets self.driver to None after the quit
Finally ==
    /\ h_pc = "finally"
    /\ quits' = IF driver THEN quits + 1 ELSE quits
    /\ driver' = IF variant = "linkedin_bot" THEN FALSE ELSE driver
    /\ h_pc' = "return"
    /\ UNCHANGED <<launched, h_jobs, seen_links, left, selector, last, h_error,
                   had_error, botVars, idVars, timeVars, slugVars, storeVars,
                   scrollVars>>

\* "return jobs", into run(): "jobs = ..." before the call of filter_new_jobs
Return ==
    /\ h_pc = "return"
    /\ pc = "scrape"
    /\ h_pc' = "returned"
    /\ jobs' = h_jobs
    /\ pc' = "filter"
    /\ UNCHANGED <<variant, file, sent_job_ids, new_jobs, runs, loaded,
                   seen_at_start, file_at_start, outcome, delivered, handed,
                   failed, driver, launched, quits, h_jobs, seen_links, left,
                   selector, last, h_error, had_error, idVars, timeVars,
                   slugVars, storeVars,
                   scrollVars>>

InitHarvest == HarvestInit /\ IdIdle /\ TimeIdle /\ SlugIdle
    /\ StoreIdle /\ ScrollIdle

NextHarvest ==
    \/ SetupDriver
    \/ Get
    \/ ScrollPage
    \/ FindJobLinks
    \/ PrimaryLink
    \/ FindContainers
    \/ SecondaryContainer
    \/ RemoveDuplicates
    \/ FindCards
    \/ FindCardLinks
    \/ Card
    \/ Except
    \/ Finally
    \/ Return
    \/ Filter
    \/ Send

SpecHarvest == InitHarvest /\ [][NextHarvest]_vars

(***************************************************************************)
(* sent_jobs.json as a JSON text: _load_sent_jobs and _save_sent_jobs on   *)
(* what the file can hold, and the set read back after a save.             *)
(***************************************************************************)
\* a JSON value as json.load gives it: t is its type, s the text of a str or
\* a number, items the members of a list or the keys of a dict
Val(t, s, items) == [t |-> t, s |-> s, items |-> items]
Str(s) == Val("str", s, <<>>)
Num(s) == Val("num", s, <<>>)
Null == Val("null", <<>>, <<>>)
Bool == Val("bool", <<"t">>, <<>>)
List(xs) == Val("list", <<>>, xs)
Dict(ks) == Val("dict", <<>>, ks)

\* what a list under job_ids is made of
ListedItems ==
    {Str(<<"1">>), Str(<<"2">>), Num(<<"1">>), Null, List(<<Str(<<"1">>)>>)}

\* what stands under job_ids
JobIdsValues ==
    {List(xs) : xs \in SeqsUpTo(ListedItems, MaxListed)}
        \cup {Str(<<"a", "b">>), Num(<<"5">>), Null, Bool,
              Dict(<<Str(<<"x">>)>>)}

\* the file: not there, not JSON, JSON that is no object, an object with no
\* job_ids, an object with job_ids
JsonFiles ==
    {[kind |-> k, value |-> Null] : k \in {"missing", "garbage", "object"}}
        \cup {[kind |-> "other", value |-> v] :
                 v \in {List(<<>>), Str(<<"x">>), Num(<<"5">>), Null}}
        \cup {[kind |-> "ids", value |-> v] : v \in JobIdsValues}

\* set(v) raises TypeError: v is not iterable or has an unhashable member
SetRaises(v) ==
    \/ v.t \in {"num", "null", "bool"}
    \/ /\ v.t = "list"
       /\ \E i \in 1..Len(v.items) : v.items[i].t \in {"list", "dict"}

\* set(v): the members of a list, the characters of a str, the keys of a dict
SetOf(v) ==
    IF v.t = "str"
    THEN {Str(<<v.s[i]>>) : i \in 1..Len(v.s)}
    ELSE {v.items[i] : i \in 1..Len(v.items)}

\* _load_sent_jobs: every exception of the try block gives set()
LoadJson(f) ==
    IF f.kind \in {"missing", "garbage", "other"}
    THEN {}
    ELSE LET v == IF f.kind = "ids" THEN f.value ELSE List(<<>>)
         IN  IF SetRaises(v) THEN {} ELSE SetOf(v)

\* list(ids): the members of the set, each once, in some order
ListsOf(ids) ==
    {xs \in [1..Cardinality(ids) -> ids] :
        \A i, j \in 1..Cardinality(ids) : i # j => xs[i] # xs[j]}

\* a slip: only the ids marked since the load are written
DumpOnlyMarked(xs) ==
    [kind |-> "ids",
     value |-> List(SelectSeq(xs, LAMBDA x : x \notin s_loaded))]

\* json.dump({'job_ids': xs}, f) into the file opened with 'w'
Dump(xs) == [kind |-> "ids", value |-> List(xs)]

StoreInit ==
    /\ s_file \in JsonFiles
    /\ s_file_at_start = s_file
    /\ s_ids = {}
    /\ s_loaded = {}
    /\ s_reread = {}
    /\ s_pc = "init"

\* __init__: self.sent_job_ids = self._load_sent_jobs()
LoadAtStart ==
    /\ s_pc = "init"
    /\ s_ids' = LoadJson(s_file)
    /\ s_loaded' = LoadJson(s_file)
    /\ s_pc' = "running"
    /\ UNCHANGED <<s_file, s_file_at_start, s_reread, botVars, idVars,
                   timeVars, slugVars, harvestVars, scrollVars>>

\* filter_new_jobs: self.sent_job_ids.add(job_id)
Mark ==
    /\ s_pc \in {"running", "saved"}
    /\ \E id \in Ids :
          /\ Str(id) \notin s_ids
          /\ s_ids' = s_ids \cup {Str(id)}
    /\ s_pc' = "running"
    /\ UNCHANGED <<s_file, s_file_at_start, s_loaded, s_reread, botVars,
                   idVars, timeVars, slugVars, harvestVars, scrollVars>>

\* _save_sent_jobs: open raises and the file is as it was, or the document
\* is written over what the file held
Save ==
    /\ s_pc = "running"
    /\ \/ /\ s_pc' = "save failed"
          /\ UNCHANGED s_file
       \/ /\ \E xs \in ListsOf(s_ids) : s_file' = Dump(xs)
          /\ s_pc' = "saved"
    /\ UNCHANGED <<s_file_at_start, s_ids, s_loaded, s_reread, botVars, idVars,
                   timeVars, slugVars, harvestVars, scrollVars>>

\* _load_sent_jobs of the file a save has written
Reload ==
    /\ s_pc = "saved"
    /\ s_reread' = LoadJson(s_file)
    /\ s_pc' = "reloaded"
    /\ UNCHANGED <<s_file, s_file_at_start, s_ids, s_loaded, botVars, idVars,
                   timeVars, slugVars, harvestVars, scrollVars>>

InitStore ==
    BotIdle /\ IdIdle /\ TimeIdle /\ SlugIdle /\ HarvestIdle /\ StoreInit
        /\ ScrollIdle

NextStore == LoadAtStart \/ Mark \/ Save \/ Reload

SpecStore == InitStore /\ [][NextStore]_vars

(***************************************************************************)
(* scrape.py: the scroll loop of scrape_linkedin_jobs, one step for each   *)
(* call of the browser. The heights are what the browser answers; only     *)
(* their equality is used. Every execute_script may raise, which leaves    *)
(* the loop for the except clause of the function. scroll_tos and          *)
(* scroll_bys count the calls issued, stable_turns the turns in which the  *)
(* height after the scroll equalled the height before it.                  *)
(***************************************************************************)
\* scrape.py: max_scrolls = 10
MaxScrolls == 10

Heights == 1..MaxHeight

ScrollAgainOneMore(attempts) == attempts <= MaxScrolls

\* scrape.py: while scroll_attempts < max_scrolls
ScrollAgain(attempts) == attempts < MaxScrolls

ScrollInit ==
    /\ scroll_pc = "start"
    /\ last_height = 0
    /\ new_height = 0
    /\ scroll_attempts = 0
    /\ scroll_tos = 0
    /\ scroll_bys = 0
    /\ stable_turns = 0

\* last_height = driver.execute_script("return document.body.scrollHeight")
\* scroll_attempts = 0
ReadHeight ==
    /\ scroll_pc = "start"
    /\ \/ /\ \E h \in Heights : last_height' = h
          /\ scroll_pc' = "loop"
       \/ /\ scroll_pc' = "raised"
          /\ UNCHANGED last_height
    /\ scroll_attempts' = 0
    /\ UNCHANGED <<new_height, scroll_tos, scroll_bys, stable_turns, botVars,
                   idVars, timeVars, slugVars, harvestVars, storeVars>>

\* while ...: driver.execute_script("window.scrollTo(0, ...)"); time.sleep(2)
ScrollToBottom ==
    /\ scroll_pc = "loop"
    /\ ScrollAgain(scroll_attempts)
    /\ scroll_tos' = scroll_tos + 1
    /\ scroll_pc' \in {"scrolled", "raised"}
    /\ UNCHANGED <<last_height, new_height, scroll_attempts, scroll_bys,
                   stable_turns, botVars, idVars, timeVars, slugVars,
                   harvestVars, storeVars>>

\* the while condition is false; time.sleep(2)
LoopEnds ==
    /\ scroll_pc = "loop"
    /\ ~ScrollAgain(scroll_attempts)
    /\ scroll_pc' = "done"
    /\ UNCHANGED <<last_height, new_height, scroll_attempts, scroll_tos,
                   scroll_bys, stable_turns, botVars, idVars, timeVars,
                   slugVars, harvestVars, storeVars>>

\* new_height = driver.execute_script("return document.body.scrollHeight")
Measure ==
    /\ scroll_pc = "scrolled"
    /\ \/ /\ \E h \in Heights : new_height' = h
          /\ scroll_pc' = "measured"
       \/ /\ scroll_pc' = "raised"
          /\ UNCHANGED new_height
    /\ UNCHANGED <<last_height, scroll_attempts, scroll_tos, scroll_bys,
                   stable_turns, botVars, idVars, timeVars, slugVars,
                   harvestVars, storeVars>>

\* if new_height == last_height:
\*     driver.execute_script("window.scrollBy(0, 500);"); time.sleep(1); break
\* and then the time.sleep(2) after the loop
Stable ==
    /\ scroll_pc = "measured"
    /\ new_height = last_height
    /\ stable_turns' = stable_turns + 1
    /\ scroll_bys' = scroll_bys + 1
    /\ scroll_pc' \in {"done", "raised"}
    /\ UNCHANGED <<last_height, new_height, scroll_attempts, scroll_tos,
                   botVars, idVars, timeVars, slugVars, harvestVars,
                   storeVars>>

\* last_height = new_height; scroll_attempts += 1
Grew ==
    /\ scroll_pc = "measured"
    /\ new_height # last_height
    /\ last_height' = new_height
    /\ scroll_attempts' = scroll_attempts + 1
    /\ scroll_pc' = "loop"
    /\ UNCHANGED <<new_height, scroll_tos, scroll_bys, stable_turns, botVars,
                   idVars, timeVars, slugVars, harvestVars, storeVars>>

InitScroll ==
    BotIdle /\ IdIdle /\ TimeIdle /\ SlugIdle /\ HarvestIdle /\ StoreIdle
        /\ ScrollInit

NextScroll ==
    ReadHeight \/ ScrollToBottom \/ LoopEnds \/ Measure \/ Stable \/ Grew

\* The code is sequential and every call of the browser and every sleep
\* returns or raises, so a step that is enabled is taken.
SpecScroll == InitScroll /\ [][NextScroll]_vars /\ WF_vars(NextScroll)

Init == BotInit /\ IdIdle /\ TimeIdle /\ SlugIdle /\ HarvestIdle
    /\ StoreIdle /\ ScrollIdle

Next == Scrape \/ Filter \/ Send

Spec == Init /\ [][Next]_vars

(***************************************************************************)
(* The dedup store across runs.                                            *)
(***************************************************************************)
\* filter_new_jobs has returned in this run, or no run has started
Filtered == pc \in {"send", "idle"}

\* C1: every id of sent_job_ids that was not loaded at the start belongs to a
\* batch whose send succeeded. The code marks at filter time, so this fails.
C1MarkedOnlyAfterDelivery == (sent_job_ids \ loaded) \subseteq delivered

\* C2: no step removes an id from sent_job_ids, and every write of the file
\* stores a document whose ids contain the set loaded at the start.
C2SeenSetGrows ==
    [][/\ sent_job_ids \subseteq sent_job_ids'
       /\ (file' # file \/ (pc = "send" /\ outcome' = "sent"))
            => /\ file'.kind = "doc"
               /\ loaded \subseteq file'.ids]_vars

C2Witness ==
    /\ outcome = "sent"
    /\ loaded # {}
    /\ file.kind = "doc"
    /\ loaded \subseteq file.ids
    /\ file.ids # loaded

\* C3: the batch handed to send_email holds no id twice and no id of an
\* earlier batch, and in bot.py it holds each unseen harvested id exactly once.
C3NoIdNotifiedTwice ==
    pc = "send" =>
        /\ \A i, j \in 1..Len(new_jobs) :
               i # j => JobId(variant, new_jobs[i]) # JobId(variant, new_jobs[j])
        /\ IdsOf(variant, new_jobs) \cap handed = {}
        /\ variant = "bot" =>
               \A id \in IdsOf(variant, jobs) \ seen_at_start :
                   Cardinality({i \in 1..Len(new_jobs) :
                                    JobId(variant, new_jobs[i]) = id}) = 1

C3Witness ==
    /\ pc = "send"
    /\ variant = "bot"
    /\ handed # {}
    /\ Len(jobs) = 2
    /\ JobId(variant, jobs[1]) = JobId(variant, jobs[2])
    /\ Len(new_jobs) = 1

\* C4: an id of a batch whose send failed is never returned by
\* filter_new_jobs again, so it is in no later email.
C4FailedBatchNeverNewAgain ==
    pc = "send" => IdsOf(variant, new_jobs) \cap failed = {}

C4Witness ==
    /\ pc = "send"
    /\ IdsOf(variant, jobs) \cap failed # {}
    /\ (IdsOf(variant, jobs) \cap failed) \cap delivered = {}
    /\ new_jobs = <<>>

\* C5: a run whose transport call raised ends normally and leaves the file
\* as it was when the run started.
C5FailedSendWritesNothing ==
    outcome \in TransportFailures => pc = "idle" /\ file = file_at_start

C5Witness ==
    /\ outcome \in TransportFailures
    /\ pc = "idle"
    /\ sent_job_ids # LoadSentJobs(file)

\* the indices filter_new_jobs keeps: the id is not in the set the run started
\* with and is not the id of an earlier record
Kept(js, seen) ==
    {i \in 1..Len(js) :
        /\ GetJobId(js[i]) \notin seen
        /\ \A j \in 1..(i - 1) : GetJobId(js[j]) # GetJobId(js[i])}

Nth(S, k) == CHOOSE i \in S : Cardinality({j \in S : j <= i}) = k

\* C6: in bot.py filter_new_jobs returns exactly the records not seen when
\* they are examined, in input order, and their ids are in sent_job_ids from
\* then on, whatever the send does.
C6FilterReturnsUnseenInOrder ==
    (Filtered /\ variant = "bot") =>
        /\ Len(new_jobs) = Cardinality(Kept(jobs, seen_at_start))
        /\ \A k \in 1..Len(new_jobs) :
               new_jobs[k] = jobs[Nth(Kept(jobs, seen_at_start), k)]
        /\ IdsOf(variant, new_jobs) \subseteq sent_job_ids

C6Witness ==
    /\ variant = "bot"
    /\ pc = "idle"
    /\ outcome \in TransportFailures
    /\ Len(jobs) = 2
    /\ Len(new_jobs) = 1
    /\ new_jobs[1] = jobs[2]
    /\ GetJobId(jobs[1]) \in seen_at_start

\* C7: when every harvested id is already seen, filter_new_jobs returns the
\* empty list and leaves sent_job_ids alone, and the run ends without a call
\* of send_email and without a write of the file.
C7AllSeenIsNoOp ==
    (Filtered /\ IdsOf(variant, jobs) \subseteq seen_at_start) =>
        /\ new_jobs = <<>>
        /\ sent_job_ids = seen_at_start
        /\ outcome = "none"
        /\ file = file_at_start

C7Witness ==
    /\ pc = "idle"
    /\ runs > 0
    /\ jobs # <<>>
    /\ IdsOf(variant, jobs) \subseteq seen_at_start
    /\ new_jobs = <<>>
    /\ outcome = "none"

(***************************************************************************)
(* _get_job_id.                                                            *)
(***************************************************************************)
\* C8: the id of a link and the id of the link followed by '?' and a query
\* are the same. The pattern is looked for in the query too, so this fails.
C8QueryDoesNotChangeId == id_pc = "done" => id_plain = id_query

\* the least index from which p occurs in s
FirstMatch(s, p) ==
    CHOOSE i \in 1..Len(s) :
        MatchAt(s, p, i) /\ \A j \in 1..(i - 1) : ~MatchAt(s, p, j)

\* the least index >= from of a character of cs in s, Len(s) + 1 without one
NextOf(s, cs, from) ==
    IF \E i \in from..Len(s) : s[i] \in cs
    THEN CHOOSE i \in from..Len(s) :
            s[i] \in cs /\ \A j \in from..(i - 1) : s[j] \notin cs
    ELSE Len(s) + 1

Normal(t) == Strip(Lower(t))

\* the leading token: the characters before the first whitespace
LeadingToken(t) == SubSeq(Normal(t), 1, FirstSpace(Normal(t)) - 1)

HasHoursAgo(t) == Contains(Normal(t), HourAgo) \/ Contains(Normal(t), HoursAgo)

\* C10: for a text with "hour ago" or "hours ago" whose leading token is an
\* integer n the result is true exactly when n = 1, also when the text
\* contains "minute" or "now".
C10OnlyOneHourIsPastHour ==
    (time_pc = "done" /\ HasHoursAgo(time_text) /\ IsInt(LeadingToken(time_text)))
        => past_hour = (IntValue(LeadingToken(time_text)) = 1)

C10Witness ==
    /\ time_pc = "done"
    /\ HasHoursAgo(time_text)
    /\ IsInt(LeadingToken(time_text))
    /\ IntValue(LeadingToken(time_text)) = 2
    /\ Contains(Normal(time_text), Minute)
    /\ time_text # Normal(time_text)
    /\ past_hour = FALSE

\* the text has the word "now" of its own, between whitespace
HasBareNow(t) ==
    \E k \in 1..Len(SplitWords(Normal(t))) : SplitWords(Normal(t))[k] = Now

\* C11: a text with none of "hour ago", "hours ago", "minute", "just now" and
\* the bare word "now" is not in the past hour; "Unknown" among them. The code
\* looks for "now" as a substring, and "unknown" has it, so this fails.
C11NoRuleMeansNotPastHour ==
    (/\ time_pc = "done"
     /\ ~HasHoursAgo(time_text)
     /\ ~Contains(Normal(time_text), Minute)
     /\ ~Contains(Normal(time_text), JustNow)
     /\ ~HasBareNow(time_text))
        => past_hour = FALSE

\* C12: a text with "hour ago" or "hours ago" whose leading token is not an
\* integer is not in the past hour. The swallowed ValueError leads on to the
\* minute and now rules, so this fails for a text that also has one of those.
C12MalformedHoursIsNotPastHour ==
    (/\ time_pc = "done"
     /\ HasHoursAgo(time_text)
     /\ ~IsInt(LeadingToken(time_text)))
        => past_hour = FALSE
(***************************************************************************)
(* send_email with nothing to send.                                        *)
(***************************************************************************)
\* C13: send_email([]) returns with no SMTP call made and nothing written, and
\* a run whose filter_new_jobs returned the empty list makes no SMTP call.
C13EmptyBatchIsNoOp ==
    /\ (pc = "returned" /\ new_jobs = <<>>)
         => /\ outcome = "none"
            /\ file = file_at_start
            /\ sent_job_ids = seen_at_start
            /\ delivered = {}
            /\ failed = {}
    /\ (pc = "idle" /\ runs > 0 /\ new_jobs = <<>>)
         => /\ outcome = "none"
            /\ file = file_at_start

C13Witness ==
    /\ pc = "returned"
    /\ new_jobs = <<>>
    /\ sent_job_ids # {}
    /\ outcome = "none"
(***************************************************************************)
(* The title and the company from the slug.                                *)
(***************************************************************************)
\* the href is a job-detail link whose slug is <title-words>-at-<company-
\* words>-<digits>, with nothing or a query after it, and the "-at-" between
\* the two is the last one of the slug
SlugHasTheForm ==
    /\ title_words # <<>>
    /\ company_words # <<>>
    /\ job_number # <<>>
    /\ href_tail \in {<<>>, <<"?", "q">>}
    /\ ~Contains(Dash \o JoinWith(company_words, Dash), DashAtDash)

TitleOfWords == Title(JoinWith(title_words, <<" ">>))
CompanyOfWords == Title(JoinWith(company_words, <<" ">>))

\* C20 as stated: every slug of the form gives the title words and the company
\* words in title case. A title of at most 3 characters and a company of one
\* character are not taken from the slug, so this fails.
C20SlugGivesTitleAndCompany ==
    (slug_pc = "done" /\ SlugHasTheForm)
        => /\ url_title = TitleOfWords
           /\ url_company = CompanyOfWords

\* C20 amended: a slug of the form gives the title words in title case when
\* that title is longer than 3 characters and the company words in title case
\* when that company is longer than 1 character; a shorter one is not taken
\* from the slug. The job number is cut off and the cut is at the last "-at-".
C20SlugGivesLongTitleAndCompany ==
    (slug_pc = "done" /\ SlugHasTheForm)
        => /\ url_title = IF Len(TitleOfWords) > 3 THEN TitleOfWords ELSE None
           /\ url_company = IF Len(CompanyOfWords) > 1
                            THEN CompanyOfWords
                            ELSE None

C20Witness ==
    /\ slug_pc = "done"
    /\ SlugHasTheForm
    /\ title_words = <<(<<"d", "a", "t", "a">>), (<<"a", "t">>)>>
    /\ href_tail # <<>>
    /\ url_title = <<"D", "a", "t", "a", " ", "A", "t">>
    /\ url_company = <<"Q", "a">>
(***************************************************************************)
(* The harvest.                                                            *)
(***************************************************************************)
\* no two records of js have the same link once the query is cut off
NoTwoOfOneLink(js) ==
    \A i, j \in 1..Len(js) :
        i # j => CleanLink(js[i].link) # CleanLink(js[j].link)

\* C14: in scrape.py the list of records never holds two records whose links
\* are equal without their query, neither during the two passes nor when it
\* is returned to run().
C14NoTwoRecordsOfOneLink ==
    variant = "bot" => NoTwoOfOneLink(h_jobs) /\ NoTwoOfOneLink(jobs)

C14Witness ==
    /\ variant = "bot"
    /\ h_pc = "returned"
    /\ Len(jobs) = 2
    /\ jobs[1].link = Host \o JobsView \o <<"1", "?", "q">>
    /\ last.result = "duplicate"
    /\ selector > NumJobSelectors

\* C15: when the scrape function has returned, every browser that was
\* launched has been quit, once. In scrape.py an exception of execute_script
\* inside setup_driver leaves the variable driver None, so this fails.
C15BrowserClosedOnce == h_pc = "returned" => quits = launched

EarlySteps == {"setup", "get", "scroll"}

\* C16: when the setup, the navigation or the scroll raised, the harvest goes
\* through its handler and returns the empty list, and the run that called it
\* ends with no call of send_email and the set and the file as they were.
C16EarlyFailureIsAnEmptyHarvest ==
    h_error \in EarlySteps =>
        /\ h_pc \in {"except", "finally", "return", "returned"}
        /\ h_jobs = <<>>
        /\ jobs = <<>>
        /\ new_jobs = <<>>
        /\ pc \in {"scrape", "filter", "send", "idle"}
        /\ outcome = "none"
        /\ file = file_at_start
        /\ sent_job_ids = seen_at_start
        /\ handed = {}

C16Witness ==
    /\ variant = "bot"
    /\ h_error = "scroll"
    /\ h_pc = "returned"
    /\ launched = 1
    /\ pc = "idle"
    /\ runs = 1
    /\ sent_job_ids # {}

IsPrefix(a, b) == Len(a) <= Len(b) /\ SubSeq(b, 1, Len(a)) = a

\* C17: no step takes a record out of the list, the list run() gets is the
\* list as it stands, and a step in which the work on an element raises
\* leaves the list as it was and goes on with the next element of the loop.
C17ElementErrorSkipsOneElement ==
    [][/\ IsPrefix(h_jobs, h_jobs')
       /\ h_pc' = "returned" => jobs' = h_jobs
       /\ (left' = left - 1 /\ last'.result = "error")
            => /\ h_jobs' = h_jobs
               /\ h_pc' # "except"
               /\ h_error' = h_error
               /\ left' > 0 => h_pc' = h_pc]_vars

C17Witness ==
    /\ had_error
    /\ last.result = "record"
    /\ h_pc = "returned"
    /\ Len(jobs) = 2
    /\ h_error = "none"

\* the record appended last has a link, a title and a company
LastRecordIsFilled ==
    /\ h_jobs # <<>>
    /\ ~Falsy(h_jobs[Len(h_jobs)].link)
    /\ ~Falsy(h_jobs[Len(h_jobs)].title)
    /\ ~Falsy(h_jobs[Len(h_jobs)].company)

\* C18: an element around which no selector finds anything, and which is
\* read without an exception, has an href and is no duplicate, gives a record
\* with a link, a title and a company. linkedin_bot.py appends a record only
\* "if title and title != 'Unknown'", so this fails.
C18NoCandidateDroppedForAField ==
    (last.none_found /\ last.result \notin {"error", "no href", "duplicate"})
        => last.result = "record" /\ LastRecordIsFilled

\* C19: an element with no href, read without an exception and not dropped
\* for its title, gives a record whose link is the URL of the page. scrape.py
\* passes over such an element ("if not href ...: continue"), so this fails.
C19NoHrefStillGivesARecord ==
    (last.no_href /\ last.result \notin {"error", "no title"})
        => /\ last.result = "record"
           /\ h_jobs # <<>>
           /\ h_jobs[Len(h_jobs)].link = LinkedinUrl
(***************************************************************************)
(* The file as a JSON text.                                                *)
(***************************************************************************)
\* the file is a JSON object whose job_ids is a list of strings
WellShaped(f) ==
    /\ f.kind = "ids"
    /\ f.value.t = "list"
    /\ \A i \in 1..Len(f.value.items) : f.value.items[i].t = "str"

\* C21: _load_sent_jobs returns the strings under job_ids when the file is an
\* object whose job_ids is a list of strings, and the empty set for every
\* other file. The code hands whatever stands under job_ids to set(), which
\* takes a str, a dict and a list of numbers too, so this fails.
C21LoadGivesTheStringsOrNothing ==
    s_pc \notin {"off", "init"}
        => s_loaded = IF WellShaped(s_file_at_start)
                      THEN SetOf(s_file_at_start.value)
                      ELSE {}

\* C22: the file a save has written is the document of the whole set, and
\* _load_sent_jobs of it returns the set as it was at the save.
C22SaveThenLoadGivesTheSet ==
    /\ s_pc = "saved"
         => /\ s_file.kind = "ids"
            /\ s_file.value.t = "list"
            /\ SetOf(s_file.value) = s_ids
            /\ Len(s_file.value.items) = Cardinality(s_ids)
    /\ s_pc = "reloaded" => s_reread = s_ids

C22Witness ==
    /\ s_pc = "reloaded"
    /\ s_file_at_start.kind = "ids"
    /\ s_loaded # {}
    /\ s_ids # s_loaded
    /\ s_file # s_file_at_start
    /\ s_reread = s_ids
(***************************************************************************)
(* The process over its runs.                                              *)
(***************************************************************************)
\* C23: no run ends the process: run() always returns to the scheduler. In
\* linkedin_bot.py run() has no try and neither start_scheduler nor main
\* catches more than KeyboardInterrupt, so an exception of _is_past_hour for
\* a time_posted of None ends the process, and this fails.
C23RunAlwaysReturns == pc # "crashed"

\* C25: every id in the file was loaded at the start or belongs to a batch
\* whose send succeeded. The ids of a batch whose send failed stay in
\* sent_job_ids and the next save that succeeds writes them, so this fails.
C25FileHoldsOnlyDeliveredIds ==
    file.kind = "doc" => file.ids \subseteq (loaded \cup delivered)

(***************************************************************************)
(* The scroll loop.                                                        *)
(***************************************************************************)
ScrollOver == scroll_pc \in {"done", "raised"}

ScrollLoopBounds ==
    /\ scroll_tos <= MaxScrolls
    /\ scroll_attempts <= MaxScrolls
    /\ scroll_bys <= 1
    /\ stable_turns <= 1
    /\ stable_turns = 1 => ScrollOver
    /\ scroll_bys = stable_turns
    /\ scroll_bys = 1 => /\ new_height = last_height
                         /\ scroll_tos = scroll_attempts + 1
    /\ scroll_attempts = MaxScrolls => /\ scroll_bys = 0
                                       /\ scroll_tos = MaxScrolls
    /\ scroll_pc = "done" =>
           \/ stable_turns = 1
           \/ scroll_attempts = MaxScrolls /\ stable_turns = 0

\* C24: the scroll loop ends; it issues at most 10 scrolls to the bottom;
\* the turn in which the height after the scroll equals the height before
\* it is the last one; the scroll by an offset is issued at most once, in
\* that turn only, and not at all when the height changed in all 10 turns.
C24ScrollLoopEnds == []ScrollLoopBounds /\ <>ScrollOver

C24Witness ==
    /\ scroll_pc = "done"
    /\ scroll_attempts = MaxScrolls - 1
    /\ scroll_tos = MaxScrolls
    /\ scroll_bys = 1
    /\ stable_turns = 1
====
